---------------------------- MODULE Spec2Model ----------------------------
(***************************************************************************)
(* A model of ecewo-fs: the asynchronous file operation engine built on    *)
(* the libuv reactor (the implementation file of the module and            *)
(* src/ecewo-fs.h).                                                        *)
(*                                                                         *)
(* State: the process-wide registry fs_state (counters, the initialized    *)
(* flag and the mutex) and one fs_request_t per entry-point call.          *)
(* Actions: one per entry point and one per libuv completion handler,      *)
(* each taken as a whole (handlers run to completion on the loop thread).  *)
(* The reactor is external: every step it is handed may be refused at      *)
(* submission (a negative return) or complete later with an error or a     *)
(* value, and malloc may fail wherever the code calls it.                  *)
(***************************************************************************)
EXTENDS Integers, Sequences, FiniteSets, TLC

\* Build-time configuration (both macros are #ifndef-guarded and meant to be
\* overridden by the build); the model is checked with small values.
ECEWO_FS_MAX_CONCURRENT_OPS == 2
ECEWO_FS_MAX_FILE_SIZE == 1

\* Number of entry-point calls in one behaviour of the whole engine (Spec).
MaxCalls == 2

\* Number of calls in one behaviour of the entry points alone (SpecAdmit):
\* enough to fill the ceiling and be refused once.
AdmitCalls == ECEWO_FS_MAX_CONCURRENT_OPS + 1

\* Number of threads in the concurrent-callers specification.
MaxThreads == 2

\* Number of fs_get_stats calls the reader thread makes.
MaxSnapshots == 1

\* The number of 10 ms polls fs_cleanup makes before it gives up waiting.
DrainPolls == 100

VARIABLES
  fs_state,   \* the static fs_module_state_t
  reqs,       \* call number -> the fs_request_t of that call (and its history)
  ncalls,     \* number of entry-point calls made so far
  crashed,    \* the process aborted (uv_mutex_lock on a destroyed mutex)
  didReset,   \* history: fs_reset_stats has run
  tpc,        \* concurrent-callers specification: each thread's position
  api,        \* the lifecycle, statistics or probe call that has just returned
  cl,         \* the fs_cleanup call in progress: its position and wait_count
  gs          \* the fs_get_stats call in progress and its caller's fs_stats_t

vars == <<fs_state, reqs, ncalls, crashed, didReset, tpc, api, cl, gs>>

\* Number of calls in one sequential run over a single file (SpecStore).
StoreCalls == 3

Largest(a, b) == IF a > b THEN a ELSE b

NCalls == Largest(MaxCalls, Largest(AdmitCalls, StoreCalls))
Calls == 1..NCalls
Threads == 1..MaxThreads

Kinds == {"read", "write", "append", "stat", "unlink", "mkdir", "rmdir", "rename"}
SimpleKinds == {"unlink", "mkdir", "rmdir"}
WriteKinds == {"write", "append"}

\* The strings a callback can receive as its error argument.
NULL == "NULL"
UvErrMsg == "uv_err_name: uv_strerror"

----------------------------------------------------------------------------
(* The registry: fs_module_state_t and the functions that update it.       *)

fs_state_init ==
  [active_operations |-> 0, peak_operations |-> 0, queued_operations |-> 0,
   total_reads |-> 0, total_writes |-> 0,
   total_bytes_read |-> 0, total_bytes_written |-> 0,
   failed_operations |-> 0,
   mutex |-> "none", initialized |-> FALSE]

\* The comparison with <= for <.
can_accept_off_by_one(s) == s.active_operations <= ECEWO_FS_MAX_CONCURRENT_OPS

can_accept(s) == s.active_operations < ECEWO_FS_MAX_CONCURRENT_OPS

\* fs_can_accept_operation: -1 when not initialized, else the comparison as 0/1.
fs_can_accept_operation(s) ==
  IF ~s.initialized THEN -1
  ELSE IF can_accept(s) THEN 1 ELSE 0

fs_begin_operation(s) ==
  LET a == s.active_operations + 1 IN
  [s EXCEPT !.active_operations = a,
            !.peak_operations = IF a > s.peak_operations THEN a ELSE @]

\* The slot is not given back.
fs_end_operation_kept(s) == s

fs_end_operation(s) ==
  [s EXCEPT !.active_operations = IF @ > 0 THEN @ - 1 ELSE @]

\* The read is counted, its bytes are not.
fs_record_read_no_bytes(s, bytes) == [s EXCEPT !.total_reads = @ + 1]

fs_record_read(s, bytes) ==
  [s EXCEPT !.total_reads = @ + 1, !.total_bytes_read = @ + bytes]

fs_record_write(s, bytes) ==
  [s EXCEPT !.total_writes = @ + 1, !.total_bytes_written = @ + bytes]

\* The increment left out.
fs_record_error_missing(s) == s

fs_record_error(s) ==
  [s EXCEPT !.failed_operations = @ + 1]

\* The whole registry cleared, active_operations included.
fs_reset_stats_all(s) ==
  [s EXCEPT !.total_reads = 0, !.total_writes = 0,
            !.total_bytes_read = 0, !.total_bytes_written = 0,
            !.failed_operations = 0, !.peak_operations = 0,
            !.active_operations = 0]

fs_reset_stats(s) ==
  [s EXCEPT !.total_reads = 0, !.total_writes = 0,
            !.total_bytes_read = 0, !.total_bytes_written = 0,
            !.failed_operations = 0, !.peak_operations = 0]

----------------------------------------------------------------------------
(* The request record.                                                     *)

fs_request_init ==
  [kind |-> "none", arena |-> FALSE,
   st |-> "unused",      \* the pending reactor step, or the record's fate
   ret |-> 1,            \* the entry point's return value (1: not returned)
   reason |-> "none",    \* why the entry point returned -1
   cbCount |-> 0,        \* invocations of the user callback
   cbErr |-> NULL, cbData |-> NULL, cbLen |-> 0,   \* the callback's arguments
   outcome |-> "none",   \* "ok" / "fail": how the operation ended
   size |-> 0, file_size |-> 0,
   data |-> "null",      \* req->data: null / heap / arena / freed
   cap |-> 0,            \* the bytes allocated at req->data by a read
   nul |-> -1,           \* the index in req->data the zero was written at
   file |-> "none",      \* req->file: none / open / closed
   error_msg |-> NULL,   \* req->error_msg
   wres |-> 0,           \* history: the byte count the write step reported
   asked |-> 0,          \* history: the size that was put to the size test
   nfree |-> 0,          \* history: how many times free(req->data) has run
   cbValid |-> TRUE,     \* history: what the callback was passed was allocated
   steps |-> <<>>,       \* reactor steps handed to libuv, in order
   events |-> <<>>]      \* history: callback / end / cleanup, in order

\* The size test with >= for >.
too_large_at_limit(size) == size >= ECEWO_FS_MAX_FILE_SIZE

\* The size test left out.
too_large_never(size) == FALSE

\* The size test of fs_write_internal and of read_stat_cb.
too_large(size) == size > ECEWO_FS_MAX_FILE_SIZE

\* make_error_msg: the translated message, or NULL when malloc(256) fails.
make_error_msg(mallocOk) == IF mallocOk THEN UvErrMsg ELSE NULL

\* The `req->error_msg ? req->error_msg : "..."` argument of the chain handlers.
ErrArg(msg, fallback) == IF msg # NULL THEN msg ELSE fallback

\* The arena test left out: whatever data points to is freed when asked.
fs_request_cleanup_any_data(r, free_data) ==
  [r EXCEPT !.st = "done", !.events = Append(@, "cleanup"),
            !.data = IF free_data /\ r.data # "null" THEN "freed" ELSE @,
            !.nfree = IF free_data /\ r.data # "null" THEN @ + 1 ELSE @,
            !.error_msg = NULL, !.size = 0, !.file_size = 0, !.arena = FALSE,
            !.cap = 0, !.nul = -1]

\* fs_request_cleanup(req, free_data): data is freed only when asked, present
\* and not arena-owned; the paths, the message and the record itself are
\* always freed, so the record's own fields are gone (what is kept of a
\* released record is its history).
fs_request_cleanup(r, free_data) ==
  [r EXCEPT !.st = "done", !.events = Append(@, "cleanup"),
            !.data = IF free_data /\ r.data # "null" /\ ~r.arena THEN "freed" ELSE @,
            !.nfree = IF free_data /\ r.data # "null" /\ ~r.arena THEN @ + 1 ELSE @,
            !.error_msg = NULL, !.size = 0, !.file_size = 0, !.arena = FALSE,
            !.cap = 0, !.nul = -1]

\* The callback guarded by a test that never passes.
Callback_skipped(r, err, data, len) == r

\* Invoking the user callback.
Callback(r, err, data, len) ==
  [r EXCEPT !.cbCount = @ + 1, !.cbErr = err, !.cbData = data, !.cbLen = len,
            !.cbValid = /\ @
                        /\ r.st # "done"
                        /\ err = UvErrMsg => r.error_msg = UvErrMsg,
            !.events = Append(@, "callback")]

\* fs_end_operation as the record's history sees it: its slot is given back.
Ended(r) == [r EXCEPT !.events = Append(@, "end")]

\* The step handed to libuv twice over.
Issue_again(r, step, mode) ==
  [r EXCEPT !.steps = Append(Append(@, <<step, mode>>), <<step, mode>>)]

\* Handing a step to libuv.
Issue(r, step, mode) == [r EXCEPT !.steps = Append(@, <<step, mode>>)]

\* A lifecycle, statistics or probe call that has returned: what it returned
\* (0 for void), whether it returned at its test of fs_state.initialized
\* and, for fs_cleanup, whether it printed its warning and how many polls it
\* made.
Call(name, ret) ==
  [call |-> name, ret |-> ret, early |-> FALSE, warned |-> FALSE, polls |-> 0]

\* The call returned at its test of fs_state.initialized.
Early(name, ret) == [Call(name, ret) EXCEPT !.early = TRUE]

\* The last step was none of those calls.
NoCall == Call("", 0)

\* fs_cleanup is not running.
cl_init == [pc |-> "idle", wait_count |-> 0]

\* The members of fs_stats_t in the order fs_get_stats copies them.
StatsFields ==
  <<"active_operations", "peak_operations", "queued_operations",
    "total_reads", "total_writes", "total_bytes_read", "total_bytes_written",
    "failed_operations">>

\* The counters of the registry as an fs_stats_t.
Counters(s) ==
  [f \in {StatsFields[k] : k \in 1..Len(StatsFields)} |-> s[f]]

\* No thread is inside fs_get_stats (pc: the member to copy next, 0 when no
\* call is running), the caller's structure zeroed, no call made yet.
gs_init == [pc |-> 0, stats |-> Counters(fs_state_init), n |-> 0]

Init ==
  /\ fs_state = fs_state_init
  /\ reqs = [i \in Calls |-> fs_request_init]
  /\ ncalls = 0
  /\ crashed = FALSE
  /\ didReset = FALSE
  /\ tpc = [t \in Threads |-> "idle"]
  /\ api = NoCall
  /\ cl = cl_init
  /\ gs = gs_init


----------------------------------------------------------------------------
(* Module lifecycle and statistics.                                        *)

\* fs_init setting the registry up again when it is already initialized.
FsInit_again ==
  /\ ~crashed
  /\ \E mutexOk \in BOOLEAN :
       IF ~mutexOk
       THEN /\ api' = Call("fs_init", -1)
            /\ UNCHANGED fs_state
       ELSE /\ api' = IF fs_state.initialized THEN Early("fs_init", 0)
                      ELSE Call("fs_init", 0)
            /\ fs_state' = [fs_state_init EXCEPT !.mutex = "ok", !.initialized = TRUE]
  /\ UNCHANGED <<reqs, ncalls, crashed, didReset, tpc, cl, gs>>

\* fs_init: a no-op returning 0 when already initialized; uv_mutex_init may
\* fail, and fs_init then returns -1.
FsInit ==
  /\ ~crashed
  /\ IF fs_state.initialized
     THEN /\ api' = Early("fs_init", 0)
          /\ UNCHANGED fs_state
     ELSE \E mutexOk \in BOOLEAN :
          IF ~mutexOk
          THEN /\ api' = Call("fs_init", -1)
               /\ UNCHANGED fs_state
          ELSE /\ api' = Call("fs_init", 0)
               /\ fs_state' = [fs_state EXCEPT !.mutex = "ok", !.initialized = TRUE]
  /\ UNCHANGED <<reqs, ncalls, crashed, didReset, tpc, cl, gs>>

\* The drain loop's condition.
drain_goes_on(s, wait_count) ==
  s.active_operations > 0 /\ wait_count < DrainPolls

\* The drain loop run with nothing completing in between: the wait_count it
\* ends with.
RECURSIVE Drain(_, _)
Drain(s, wait_count) ==
  IF drain_goes_on(s, wait_count) THEN Drain(s, wait_count + 1) ELSE wait_count

\* The warning kept back.
warning_never(s) == FALSE

\* The test that guards the warning after the loop.
warning(s) == s.active_operations > 0

\* The end of fs_cleanup: initialized = false, unlock, uv_mutex_destroy.
teardown(s) == [s EXCEPT !.initialized = FALSE, !.mutex = "destroyed"]

\* fs_cleanup returning: what it did after the loop.
Cleaned(s, wait_count) ==
  [Call("fs_cleanup", 0) EXCEPT !.warned = warning(s), !.polls = wait_count]

\* fs_cleanup, called on the loop thread: while it sleeps no completion is
\* delivered, so the drain loop leaves active_operations as it found it.
FsCleanup ==
  /\ ~crashed
  /\ cl.pc = "idle"
  /\ IF ~fs_state.initialized
     THEN /\ api' = Early("fs_cleanup", 0)
          /\ UNCHANGED fs_state
     ELSE /\ api' = Cleaned(fs_state, Drain(fs_state, 0))
          /\ fs_state' = teardown(fs_state)
  /\ UNCHANGED <<reqs, ncalls, crashed, didReset, tpc, cl, gs>>

\* fs_cleanup called on a thread other than the loop's, in steps: up to the
\* first uv_mutex_lock, ...
CleanupBegin ==
  /\ ~crashed
  /\ cl.pc = "idle"
  /\ IF ~fs_state.initialized
     THEN /\ api' = Early("fs_cleanup", 0)
          /\ UNCHANGED cl
     ELSE /\ api' = NoCall
          /\ cl' = [pc |-> "drain", wait_count |-> 0]
  /\ UNCHANGED <<fs_state, reqs, ncalls, crashed, didReset, tpc, gs>>

\* The increment of wait_count left out.
CleanupPoll_uncounted ==
  /\ ~crashed
  /\ cl.pc = "drain"
  /\ drain_goes_on(fs_state, cl.wait_count)
  /\ api' = NoCall
  /\ UNCHANGED <<cl, fs_state, reqs, ncalls, crashed, didReset, tpc, gs>>

\* ... one turn of the loop (unlock, uv_sleep(10), lock, wait_count++), ...
CleanupPoll ==
  /\ ~crashed
  /\ cl.pc = "drain"
  /\ drain_goes_on(fs_state, cl.wait_count)
  /\ cl' = [cl EXCEPT !.wait_count = @ + 1]
  /\ api' = NoCall
  /\ UNCHANGED <<fs_state, reqs, ncalls, crashed, didReset, tpc, gs>>

\* ... and from the loop's exit to the return, under the lock the last test
\* was made with.
CleanupEnd ==
  /\ ~crashed
  /\ cl.pc = "drain"
  /\ ~drain_goes_on(fs_state, cl.wait_count)
  /\ api' = Cleaned(fs_state, cl.wait_count)
  /\ fs_state' = teardown(fs_state)
  /\ cl' = cl_init
  /\ UNCHANGED <<reqs, ncalls, crashed, didReset, tpc, gs>>

\* fs_reset_stats returns at once when the module is not initialized.
FsResetStats ==
  /\ ~crashed
  /\ fs_state' = IF ~fs_state.initialized THEN fs_state ELSE fs_reset_stats(fs_state)
  /\ didReset' = (didReset \/ fs_state.initialized)
  /\ api' = IF ~fs_state.initialized THEN Early("fs_reset_stats", 0)
            ELSE Call("fs_reset_stats", 0)
  /\ UNCHANGED <<reqs, ncalls, crashed, tpc, cl, gs>>

\* uv_mutex_lock that excludes nobody.
MutexFree_always == TRUE

\* uv_mutex_lock returns at once: no thread is inside the critical section
\* of fs_get_stats.
MutexFree == gs.pc = 0

\* fs_get_stats on a thread of its own, in steps: the tests and the lock, ...
GetStatsBegin ==
  /\ ~crashed
  /\ gs.pc = 0
  /\ gs.n < MaxSnapshots
  /\ \E statsOk \in BOOLEAN :
       IF ~statsOk \/ ~fs_state.initialized
       THEN /\ api' = Early("fs_get_stats", 0)
            /\ gs' = [gs EXCEPT !.n = @ + 1]
       ELSE /\ api' = NoCall
            /\ gs' = [gs EXCEPT !.n = @ + 1, !.pc = 1]
  /\ UNCHANGED <<fs_state, reqs, ncalls, crashed, didReset, tpc, cl>>

\* ... the copy of one member, ...
GetStatsCopy ==
  /\ ~crashed
  /\ gs.pc \in 1..Len(StatsFields)
  /\ gs' = [gs EXCEPT !.pc = @ + 1,
                      !.stats[StatsFields[gs.pc]] = fs_state[StatsFields[gs.pc]]]
  /\ api' = NoCall
  /\ UNCHANGED <<fs_state, reqs, ncalls, crashed, didReset, tpc, cl>>

\* ... and the unlock and return.
GetStatsEnd ==
  /\ ~crashed
  /\ gs.pc = Len(StatsFields) + 1
  /\ gs' = [gs EXCEPT !.pc = 0]
  /\ api' = Call("fs_get_stats", 0)
  /\ UNCHANGED <<fs_state, reqs, ncalls, crashed, didReset, tpc, cl>>

\* The capacity probe, called on its own.
FsCanAccept ==
  /\ ~crashed
  /\ api' = IF ~fs_state.initialized
            THEN Early("fs_can_accept_operation", fs_can_accept_operation(fs_state))
            ELSE Call("fs_can_accept_operation", fs_can_accept_operation(fs_state))
  /\ UNCHANGED <<fs_state, reqs, ncalls, crashed, didReset, tpc, cl, gs>>

----------------------------------------------------------------------------
(* Entry points.                                                           *)

\* A handler from its first uv_mutex_lock on: atLock is the record when the
\* lock is first taken, r and s the record and the registry when the handler
\* returns. Locking a destroyed mutex is undefined: it behaves as a lock, or
\* uv_mutex_lock aborts the process.
Locked(i, atLock, r, s) ==
  \/ /\ reqs' = [reqs EXCEPT ![i] = r]
     /\ fs_state' = s
     /\ UNCHANGED crashed
  \/ /\ fs_state.mutex = "destroyed"
     /\ reqs' = [reqs EXCEPT ![i] = [atLock EXCEPT !.st = "crashed"]]
     /\ crashed' = TRUE
     /\ UNCHANGED fs_state

\* The failure exit with the record released before the callback is called.
FailExit_release_first(i, r, err, free_data) ==
  LET r1 == fs_request_cleanup(Ended([r EXCEPT !.outcome = "fail"]), free_data)
      r2 == Callback(r1, err, NULL, 0)
  IN Locked(i, r2, r2, fs_end_operation(fs_record_error(fs_state)))

\* The failure exit of the chain handlers: set nothing more, call back with
\* the error, fs_record_error, fs_end_operation, fs_request_cleanup.
FailExit(i, r, err, free_data) ==
  LET r1 == Callback([r EXCEPT !.outcome = "fail"], err, NULL, 0) IN
  Locked(i, r1, fs_request_cleanup(Ended(r1), free_data),
       fs_end_operation(fs_record_error(fs_state)))

\* A rejection counted as a failed operation.
Rejected_counted(i, why) ==
  /\ reqs' = [reqs EXCEPT ![i] = [fs_request_init EXCEPT
                                    !.st = "rejected", !.ret = -1, !.reason = why]]
  /\ fs_state' = fs_record_error(fs_state)
  /\ UNCHANGED crashed

\* The entry point returns -1 before a record is admitted: nothing of the
\* call is kept but its return value.
Rejected(i, why) ==
  /\ reqs' = [reqs EXCEPT ![i] = [fs_request_init EXCEPT
                                    !.st = "rejected", !.ret = -1, !.reason = why]]
  /\ UNCHANGED <<fs_state, crashed>>

\* fs_write_internal returns -1 at its size test.
RejectedTooLarge(i, size) ==
  /\ reqs' = [reqs EXCEPT ![i] = [fs_request_init EXCEPT
                                    !.st = "rejected", !.ret = -1,
                                    !.reason = "toolarge", !.asked = size]]
  /\ UNCHANGED <<fs_state, crashed>>

\* An entry point from fs_begin_operation on (rq: the record, allocated and
\* filled in): admit, submit the first step; when libuv refuses it: callback,
\* fs_record_error, fs_end_operation, fs_request_cleanup, return -1.
Admitted(i, rq, step, fallback, free_data) ==
  LET s1 == fs_begin_operation(fs_state) IN
  \E submitOk \in BOOLEAN :
    IF submitOk
    THEN /\ reqs' = [reqs EXCEPT ![i] =
                       [Issue(rq, step, "async") EXCEPT !.st = step, !.ret = 0]]
         /\ fs_state' = s1
         /\ UNCHANGED crashed
    ELSE \E msgOk \in BOOLEAN :
         LET r1 == [Issue(rq, step, "refused") EXCEPT
                      !.error_msg = make_error_msg(msgOk),
                      !.outcome = "fail", !.ret = -1, !.reason = "submit"]
             r2 == Callback(r1, ErrArg(r1.error_msg, fallback), NULL, 0)
         IN /\ reqs' = [reqs EXCEPT ![i] = fs_request_cleanup(Ended(r2), free_data)]
            /\ fs_state' = fs_end_operation(fs_record_error(s1))
            /\ UNCHANGED crashed

\* The body the entry points share (limit: the number of calls explored):
\* validate, test initialized, test the ceiling, (writes: test the size),
\* allocate (calloc, strdup, malloc may fail), then admit and submit.
EntryBody(limit, rq, argsOk, tooLarge, step, fallback, free_data) ==
  LET i == ncalls + 1 IN
  /\ ~crashed
  /\ ncalls < limit
  /\ ncalls' = i
  /\ api' = NoCall
  /\ UNCHANGED <<didReset, tpc, cl, gs>>
  /\ IF ~argsOk THEN Rejected(i, "badargs")
     ELSE IF ~fs_state.initialized THEN Rejected(i, "uninit")
     ELSE IF fs_can_accept_operation(fs_state) = 0 THEN Rejected(i, "full")
     ELSE IF tooLarge THEN RejectedTooLarge(i, rq.asked)
     ELSE \E memOk \in BOOLEAN :
            IF ~memOk THEN Rejected(i, "nomem")
            ELSE Admitted(i, rq, step, fallback, free_data)

fs_read_file(limit) ==
  \E pathOk, cbOk, arena \in BOOLEAN :
    LET r0 == [fs_request_init EXCEPT !.kind = "read", !.arena = arena] IN
    EntryBody(limit, r0, ~(~pathOk \/ ~cbOk), FALSE,
              "stat", "Stat failed", FALSE)

\* fs_write_file / fs_append_file differ only in the open flags.
fs_write_internal(limit, kind) ==
  \E pathOk, dataOk, cbOk \in BOOLEAN :
    \E size \in 0..(ECEWO_FS_MAX_FILE_SIZE + 1) :
      LET r0 == [fs_request_init EXCEPT !.kind = kind]
          \* malloc + memcpy
          rq == [r0 EXCEPT !.size = size, !.data = "heap", !.asked = size]
      IN EntryBody(limit, rq, ~(~pathOk \/ ~dataOk \/ ~cbOk), too_large(size),
                   "open", "Open failed", TRUE)

fs_write_file(limit) == fs_write_internal(limit, "write")

fs_append_file(limit) == fs_write_internal(limit, "append")

fs_stat(limit) ==
  \E pathOk, cbOk \in BOOLEAN :
    LET r0 == [fs_request_init EXCEPT !.kind = "stat"] IN
    EntryBody(limit, r0, ~(~pathOk \/ ~cbOk), FALSE,
              "stat", "Stat failed", FALSE)

fs_simple_op(limit, kind) ==
  \E pathOk, cbOk \in BOOLEAN :
    LET r0 == [fs_request_init EXCEPT !.kind = kind] IN
    EntryBody(limit, r0, ~(~pathOk \/ ~cbOk), FALSE,
              kind, "Operation failed", FALSE)

fs_simple_op_mode(limit, kind) ==
  \E pathOk, cbOk \in BOOLEAN :
    LET r0 == [fs_request_init EXCEPT !.kind = kind] IN
    EntryBody(limit, r0, ~(~pathOk \/ ~cbOk), FALSE,
              kind, "Operation failed", FALSE)

fs_unlink(limit) == fs_simple_op(limit, "unlink")

fs_mkdir(limit) == fs_simple_op_mode(limit, "mkdir")

fs_rmdir(limit) == fs_simple_op(limit, "rmdir")

fs_rename(limit) ==
  \E oldOk, newOk, cbOk \in BOOLEAN :
    LET r0 == [fs_request_init EXCEPT !.kind = "rename"] IN
    EntryBody(limit, r0, ~(~oldOk \/ ~newOk \/ ~cbOk), FALSE,
              "rename", "Rename failed", FALSE)

----------------------------------------------------------------------------
(* Completion handlers. libuv calls a handler once per accepted step; res  *)
(* is uv_req->result: -1 stands for any negative code.                     *)

Pending(i, kinds, step) ==
  /\ ~crashed
  /\ reqs[i].kind \in kinds
  /\ reqs[i].st = step

\* An intermediate step handed to libuv from a handler. The handlers ignore
\* the return value: when libuv refuses the step no handler will ever run.
Chain(i, r, step, submitOk) ==
  /\ reqs' = [reqs EXCEPT ![i] =
                IF submitOk THEN [Issue(r, step, "async") EXCEPT !.st = step]
                ELSE [Issue(r, step, "refused") EXCEPT !.st = "stuck"]]
  /\ UNCHANGED <<fs_state, crashed>>

\* The synchronous close left out.
CloseSync_missing(r) == r

\* uv_fs_close with a NULL callback runs synchronously, its result unused.
CloseSync(r) == [Issue(r, "close", "sync") EXCEPT !.file = "closed"]

\* A read buffer of exactly the file's size.
alloc_size_exact(file_size) == file_size

\* The bytes read_open_cb allocates for a file of file_size bytes.
alloc_size(file_size) == file_size + 1

\* The length of the uv_buf_t handed to uv_fs_read.
buf_len(file_size) == file_size

read_close_cb(i) ==
  /\ Pending(i, {"read"}, "close")
  /\ LET r == reqs[i]
         r1 == Callback([r EXCEPT !.file = "closed", !.outcome = "ok"],
                        NULL, r.data, r.size)
     IN Locked(i, r1, fs_request_cleanup(Ended(r1), FALSE),
               fs_end_operation(fs_record_read(fs_state, r.size)))
  /\ api' = NoCall
  /\ UNCHANGED <<ncalls, didReset, tpc, cl, gs>>

read_data_cb(i) ==
  /\ Pending(i, {"read"}, "read")
  /\ \E res \in -1..buf_len(reqs[i].file_size) :
       LET r == reqs[i] IN
       IF res < 0
       THEN \E msgOk \in BOOLEAN :
            LET r1 == CloseSync([r EXCEPT !.error_msg = make_error_msg(msgOk)])
            IN FailExit(i, r1, ErrArg(r1.error_msg, "Read failed"), TRUE)
       ELSE \E submitOk \in BOOLEAN :
            Chain(i, [r EXCEPT !.size = res, !.nul = res], "close", submitOk)
  /\ api' = NoCall
  /\ UNCHANGED <<ncalls, didReset, tpc, cl, gs>>

read_open_cb(i) ==
  /\ Pending(i, {"read"}, "open")
  /\ \E openOk \in BOOLEAN :
       LET r == reqs[i] IN
       IF ~openOk
       THEN \E msgOk \in BOOLEAN :
            LET r1 == [r EXCEPT !.error_msg = make_error_msg(msgOk)]
            IN FailExit(i, r1, ErrArg(r1.error_msg, "Open failed"), FALSE)
       ELSE \E allocOk \in BOOLEAN :
            LET r1 == [r EXCEPT !.file = "open",
                                !.data = IF ~allocOk THEN "null"
                                         ELSE IF r.arena THEN "arena" ELSE "heap",
                                !.cap = IF ~allocOk THEN 0
                                        ELSE alloc_size(r.file_size)]
            IN IF r1.data = "null"
               THEN FailExit(i, CloseSync(r1), "Memory allocation failed", FALSE)
               ELSE \E submitOk \in BOOLEAN : Chain(i, r1, "read", submitOk)
  /\ api' = NoCall
  /\ UNCHANGED <<ncalls, didReset, tpc, cl, gs>>

read_stat_cb(i) ==
  /\ Pending(i, {"read"}, "stat")
  /\ \E res \in -1..(ECEWO_FS_MAX_FILE_SIZE + 1) :
       LET r == reqs[i] IN
       IF res < 0
       THEN \E msgOk \in BOOLEAN :
            LET r1 == [r EXCEPT !.error_msg = make_error_msg(msgOk)]
            IN FailExit(i, r1, ErrArg(r1.error_msg, "Stat failed"), FALSE)
       ELSE LET r1 == [r EXCEPT !.file_size = res, !.asked = res] IN
            IF too_large(r1.file_size)
            THEN FailExit(i, r1, "File too large", FALSE)
            ELSE \E submitOk \in BOOLEAN : Chain(i, r1, "open", submitOk)
  /\ api' = NoCall
  /\ UNCHANGED <<ncalls, didReset, tpc, cl, gs>>

\* The record released with free_data false.
write_close_cb_keeps_data(i) ==
  /\ Pending(i, WriteKinds, "close")
  /\ LET r == reqs[i]
         r1 == Callback([r EXCEPT !.file = "closed", !.outcome = "ok"], NULL, NULL, 0)
     IN Locked(i, r1, fs_request_cleanup(Ended(r1), FALSE),
               fs_end_operation(fs_record_write(fs_state, r.size)))
  /\ api' = NoCall
  /\ UNCHANGED <<ncalls, didReset, tpc, cl, gs>>

write_close_cb(i) ==
  /\ Pending(i, WriteKinds, "close")
  /\ LET r == reqs[i]
         r1 == Callback([r EXCEPT !.file = "closed", !.outcome = "ok"], NULL, NULL, 0)
     IN Locked(i, r1, fs_request_cleanup(Ended(r1), TRUE),
               fs_end_operation(fs_record_write(fs_state, r.size)))
  /\ api' = NoCall
  /\ UNCHANGED <<ncalls, didReset, tpc, cl, gs>>

write_data_cb(i) ==
  /\ Pending(i, WriteKinds, "write")
  /\ \E res \in -1..reqs[i].size :
       LET r == reqs[i] IN
       IF res < 0
       THEN \E msgOk \in BOOLEAN :
            LET r1 == CloseSync([r EXCEPT !.error_msg = make_error_msg(msgOk)])
            IN FailExit(i, r1, ErrArg(r1.error_msg, "Write failed"), TRUE)
       ELSE \E submitOk \in BOOLEAN :
            Chain(i, [r EXCEPT !.size = res, !.wres = res], "close", submitOk)
  /\ api' = NoCall
  /\ UNCHANGED <<ncalls, didReset, tpc, cl, gs>>

write_open_cb(i) ==
  /\ Pending(i, WriteKinds, "open")
  /\ \E openOk \in BOOLEAN :
       LET r == reqs[i] IN
       IF ~openOk
       THEN \E msgOk \in BOOLEAN :
            LET r1 == [r EXCEPT !.error_msg = make_error_msg(msgOk)]
            IN FailExit(i, r1, ErrArg(r1.error_msg, "Open failed"), TRUE)
       ELSE \E submitOk \in BOOLEAN :
            Chain(i, [r EXCEPT !.file = "open"], "write", submitOk)
  /\ api' = NoCall
  /\ UNCHANGED <<ncalls, didReset, tpc, cl, gs>>

stat_cb(i) ==
  /\ Pending(i, {"stat"}, "stat")
  /\ \E statOk \in BOOLEAN :
       LET r == reqs[i] IN
       IF ~statOk
       THEN \E msgOk \in BOOLEAN :
            LET r1 == [r EXCEPT !.error_msg = make_error_msg(msgOk)]
            IN FailExit(i, r1, ErrArg(r1.error_msg, "Stat failed"), FALSE)
       ELSE LET r1 == Callback([r EXCEPT !.outcome = "ok"], NULL, "stat", 0)
            IN Locked(i, r1, fs_request_cleanup(Ended(r1), FALSE), fs_end_operation(fs_state))
  /\ api' = NoCall
  /\ UNCHANGED <<ncalls, didReset, tpc, cl, gs>>

\* The body of simple_op_cb and of rename_cb (the two are the same text):
\* on an error fs_record_error runs before the callback, and the callback's
\* error argument is req->error_msg itself.
SingleStepCb(i, opOk, msgOk) ==
  LET r == reqs[i] IN
  IF ~opOk
  THEN LET r1 == [r EXCEPT !.error_msg = make_error_msg(msgOk), !.outcome = "fail"]
           r2 == Callback(r1, r1.error_msg, NULL, 0)
       IN Locked(i, r1, fs_request_cleanup(Ended(r2), FALSE),
                 fs_end_operation(fs_record_error(fs_state)))
  ELSE LET r1 == Callback([r EXCEPT !.outcome = "ok"], NULL, NULL, 0)
       IN Locked(i, r1, fs_request_cleanup(Ended(r1), FALSE), fs_end_operation(fs_state))

simple_op_cb(i) ==
  /\ Pending(i, SimpleKinds, reqs[i].kind)
  /\ \E opOk, msgOk \in BOOLEAN : SingleStepCb(i, opOk, msgOk)
  /\ api' = NoCall
  /\ UNCHANGED <<ncalls, didReset, tpc, cl, gs>>

rename_cb(i) ==
  /\ Pending(i, {"rename"}, "rename")
  /\ \E opOk, msgOk \in BOOLEAN : SingleStepCb(i, opOk, msgOk)
  /\ api' = NoCall
  /\ UNCHANGED <<ncalls, didReset, tpc, cl, gs>>

----------------------------------------------------------------------------
(* The engine driven from the loop thread.                                 *)

Next ==
  \/ FsInit
  \/ FsCleanup
  \/ FsResetStats
  \/ fs_read_file(MaxCalls)
  \/ fs_write_file(MaxCalls)
  \/ fs_append_file(MaxCalls)
  \/ fs_stat(MaxCalls)
  \/ fs_unlink(MaxCalls)
  \/ fs_mkdir(MaxCalls)
  \/ fs_rmdir(MaxCalls)
  \/ fs_rename(MaxCalls)
  \/ \E i \in Calls : read_stat_cb(i)
  \/ \E i \in Calls : read_open_cb(i)
  \/ \E i \in Calls : read_data_cb(i)
  \/ \E i \in Calls : read_close_cb(i)
  \/ \E i \in Calls : write_open_cb(i)
  \/ \E i \in Calls : write_data_cb(i)
  \/ \E i \in Calls : write_close_cb(i)
  \/ \E i \in Calls : stat_cb(i)
  \/ \E i \in Calls : simple_op_cb(i)
  \/ \E i \in Calls : rename_cb(i)

Spec == Init /\ [][Next]_vars

----------------------------------------------------------------------------
(* The entry points and the capacity probe alone: calls made back to back  *)
(* on the loop thread before the loop delivers any completion.             *)

NextAdmit ==
  \/ FsInit
  \/ FsCleanup
  \/ FsCanAccept
  \/ fs_read_file(AdmitCalls)
  \/ fs_write_file(AdmitCalls)
  \/ fs_append_file(AdmitCalls)
  \/ fs_stat(AdmitCalls)
  \/ fs_unlink(AdmitCalls)
  \/ fs_mkdir(AdmitCalls)
  \/ fs_rmdir(AdmitCalls)
  \/ fs_rename(AdmitCalls)

SpecAdmit == Init /\ [][NextAdmit]_vars


----------------------------------------------------------------------------
(* Completions delivered fairly: libuv runs the handler of every step it   *)
(* accepted. Lifecycle and statistics calls are left out.                  *)

Complete(i) ==
  \/ read_stat_cb(i) \/ read_open_cb(i) \/ read_data_cb(i) \/ read_close_cb(i)
  \/ write_open_cb(i) \/ write_data_cb(i) \/ write_close_cb(i)
  \/ stat_cb(i) \/ simple_op_cb(i) \/ rename_cb(i)

NextLive ==
  \/ FsInit
  \/ fs_read_file(MaxCalls)
  \/ fs_write_file(MaxCalls)
  \/ fs_append_file(MaxCalls)
  \/ fs_stat(MaxCalls)
  \/ fs_unlink(MaxCalls)
  \/ fs_mkdir(MaxCalls)
  \/ fs_rmdir(MaxCalls)
  \/ fs_rename(MaxCalls)
  \/ \E i \in Calls : Complete(i)

SpecLive == Init /\ [][NextLive]_vars /\ \A i \in Calls : WF_vars(Complete(i))

----------------------------------------------------------------------------
(* Concurrent callers: threads inside fs_stat / fs_unlink, interleaved at  *)
(* the granularity of the mutex (each critical section is one step).       *)

\* Up to and including the call of fs_can_accept_operation: the thread leaves
\* with -1, or goes on knowing only what the probe returned.
MTCheck(t) ==
  /\ ~crashed
  /\ tpc[t] = "idle"
  /\ api' = NoCall
  /\ ncalls + Cardinality({u \in Threads : tpc[u] # "idle"}) < AdmitCalls
  /\ \E kind \in {"stat", "unlink"} :
       IF ~fs_state.initialized
       THEN /\ ncalls' = ncalls + 1
            /\ Rejected(ncalls + 1, "uninit")
            /\ UNCHANGED <<didReset, tpc, cl, gs>>
       ELSE IF fs_can_accept_operation(fs_state) = 0
       THEN /\ ncalls' = ncalls + 1
            /\ Rejected(ncalls + 1, "full")
            /\ UNCHANGED <<didReset, tpc, cl, gs>>
       ELSE /\ tpc' = [tpc EXCEPT ![t] = kind]
            /\ UNCHANGED <<fs_state, reqs, ncalls, crashed, didReset, cl, gs>>

\* The rest of the entry point: allocate, fs_begin_operation, submit.
MTBegin(t) ==
  /\ ~crashed
  /\ tpc[t] # "idle"
  /\ tpc' = [tpc EXCEPT ![t] = "idle"]
  /\ api' = NoCall
  /\ ncalls' = ncalls + 1
  /\ \E memOk \in BOOLEAN :
       IF ~memOk THEN Rejected(ncalls + 1, "nomem")
       ELSE Admitted(ncalls + 1, [fs_request_init EXCEPT !.kind = tpc[t]],
                     tpc[t],
                     IF tpc[t] = "stat" THEN "Stat failed" ELSE "Operation failed",
                     FALSE)
  /\ UNCHANGED <<didReset, cl, gs>>

NextMT ==
  \/ FsInit
  \/ \E t \in Threads : MTCheck(t)
  \/ \E t \in Threads : MTBegin(t)
  \/ \E i \in Calls : stat_cb(i)
  \/ \E i \in Calls : simple_op_cb(i)

SpecMT == Init /\ [][NextMT]_vars


----------------------------------------------------------------------------
(* fs_cleanup on a thread of its own while the loop thread goes on calling *)
(* entry points and delivering completions; the thread inside fs_cleanup   *)
(* keeps running.                                                          *)

CleanupStep == CleanupPoll \/ CleanupEnd

NextDrain ==
  \/ FsInit
  \/ CleanupBegin
  \/ CleanupPoll
  \/ CleanupEnd
  \/ fs_stat(MaxCalls)
  \/ fs_unlink(MaxCalls)
  \/ \E i \in Calls : stat_cb(i)
  \/ \E i \in Calls : simple_op_cb(i)

SpecDrain == Init /\ [][NextDrain]_vars /\ WF_vars(CleanupStep)

----------------------------------------------------------------------------
(* fs_get_stats on a thread of its own while the loop thread calls entry   *)
(* points, delivers completions and resets the statistics: whatever takes  *)
(* the mutex waits while the reader holds it.                              *)

NextStats ==
  \/ FsInit
  \/ GetStatsBegin
  \/ GetStatsCopy
  \/ GetStatsEnd
  \/ MutexFree /\ FsResetStats
  \/ MutexFree /\ fs_stat(MaxCalls)
  \/ MutexFree /\ fs_unlink(MaxCalls)
  \/ MutexFree /\ \E i \in Calls : stat_cb(i)
  \/ MutexFree /\ \E i \in Calls : simple_op_cb(i)

SpecStats == Init /\ [][NextStats]_vars

----------------------------------------------------------------------------
(* Properties.                                                             *)

Made == 1..ncalls

\* The record was admitted and has been released.
Released(i) == reqs[i].st = "done"

\* No operation is in flight, stuck or cut short.
AllTerminal == \A i \in Calls : reqs[i].st \in {"unused", "rejected", "done"}

ReadOk(i) == Released(i) /\ reqs[i].kind = "read" /\ reqs[i].outcome = "ok"

WriteOk(i) == Released(i) /\ reqs[i].kind \in WriteKinds /\ reqs[i].outcome = "ok"

RECURSIVE SumOver(_, _, _)
\* Sum of f[i] over the calls i <= n that satisfy the set S.
SumOver(n, S, f) ==
  IF n = 0 THEN 0
  ELSE SumOver(n - 1, S, f) + (IF n \in S THEN f[n] ELSE 0)

\* C1: the user callback of an admitted record is never invoked more than
\* once, and it has been invoked exactly once when the record is released, on
\* the success path and on every failure path.
C1_CallbackExactlyOnce ==
  \A i \in Calls :
    /\ reqs[i].cbCount <= 1
    /\ Released(i) => reqs[i].cbCount = 1

\* A read that succeeded and a read that ended on the buffer allocation
\* failure, both released.
C1_Witness ==
  \E i, j \in Calls :
    /\ ReadOk(i) /\ reqs[i].cbCount = 1
    /\ Released(j) /\ reqs[j].cbErr = "Memory allocation failed" /\ reqs[j].cbCount = 1

\* C2: every operation whose entry point returned 0 eventually reaches its
\* terminal state (callback invoked, record released, slot given back),
\* whatever the reactor reports for each step, under fair delivery.
C2_EventuallyTerminal ==
  \A i \in Calls : (reqs[i].ret = 0) ~> Released(i)

\* A call returned -1 for bad arguments, an uninitialized module or a full
\* ceiling.
RejectStep ==
  /\ ncalls' = ncalls + 1
  /\ reqs'[ncalls'].reason \in {"badargs", "uninit", "full"}

\* C3: a synchronous rejection (bad arguments, module not initialized,
\* ceiling reached) returns -1, invokes no callback, hands no step to the
\* reactor and leaves every counter of the registry unchanged.
C3_RejectionSilent ==
  [][RejectStep =>
       /\ reqs'[ncalls'].ret = -1
       /\ reqs'[ncalls'].cbCount = 0
       /\ reqs'[ncalls'].steps = <<>>
       /\ fs_state' = fs_state
       /\ \A j \in Calls \ {ncalls'} : reqs'[j] = reqs[j]]_vars

\* A call was refused with the ceiling full.
C3_Witness ==
  /\ \E i \in Calls : reqs[i].reason = "full" /\ reqs[i].ret = -1
  /\ fs_state.active_operations = ECEWO_FS_MAX_CONCURRENT_OPS
  /\ fs_state.peak_operations = ECEWO_FS_MAX_CONCURRENT_OPS

\* C4: with threads calling the entry points concurrently, admission is
\* atomic, so active_operations never exceeds the ceiling.
C4_NeverAboveCeiling ==
  fs_state.active_operations <= ECEWO_FS_MAX_CONCURRENT_OPS

\* Every call so far was a valid call on an initialized module that was
\* either queued or refused for capacity, and no callback has run.
BackToBack ==
  \A i \in Made : reqs[i].reason \in {"none", "full"} /\ reqs[i].cbCount = 0

\* C5: on one thread, of ceiling + 1 operations issued before any completion
\* exactly the first ceiling are admitted and the next is rejected, and
\* active_operations never exceeds the ceiling.
C5_CeilingPlusOne ==
  /\ fs_state.active_operations <= ECEWO_FS_MAX_CONCURRENT_OPS
  /\ BackToBack =>
       \A i \in Made :
         /\ i <= ECEWO_FS_MAX_CONCURRENT_OPS => reqs[i].ret = 0
         /\ i > ECEWO_FS_MAX_CONCURRENT_OPS => reqs[i].ret = -1

\* ceiling + 1 calls were made back to back and the last one was refused.
C5_Witness ==
  /\ BackToBack
  /\ ncalls = ECEWO_FS_MAX_CONCURRENT_OPS + 1
  /\ reqs[ncalls].reason = "full"
  /\ fs_state.active_operations = ECEWO_FS_MAX_CONCURRENT_OPS

\* C6: for every kind, the error argument of the callback is non-null if
\* and only if the operation failed, also when make_error_msg cannot
\* allocate the message.
C6_ErrorIffFailed ==
  \A i \in Calls :
    reqs[i].cbCount = 1 => (reqs[i].cbErr # NULL <=> reqs[i].outcome = "fail")

TotalsZero(s) ==
  /\ s.total_reads = 0 /\ s.total_writes = 0
  /\ s.total_bytes_read = 0 /\ s.total_bytes_written = 0
  /\ s.failed_operations = 0

\* C7 as stated: fs_reset_stats zeroes the five cumulative counters and
\* leaves active_operations unchanged, whatever is in flight.
C7_ResetZeroes ==
  [][api'.call = "fs_reset_stats" =>
       /\ TotalsZero(fs_state')
       /\ fs_state'.active_operations = fs_state.active_operations]_vars

\* C7, amended: called while the module is initialized, fs_reset_stats zeroes
\* the five cumulative counters and leaves active_operations unchanged,
\* whatever is in flight; called while it is not initialized, it changes
\* nothing.
C7_ResetZeroesWhenInitialized ==
  [][api'.call = "fs_reset_stats" =>
       /\ fs_state'.active_operations = fs_state.active_operations
       /\ fs_state.initialized => TotalsZero(fs_state')
       /\ ~fs_state.initialized => fs_state' = fs_state]_vars

\* A reset has cleared the count of a read that succeeded, with another
\* operation in flight.
C7_Witness ==
  /\ api.call = "fs_reset_stats" /\ fs_state.initialized
  /\ \E i \in Calls : ReadOk(i)
  /\ TotalsZero(fs_state)
  /\ fs_state.active_operations > 0

\* C8: fs_reset_stats leaves peak_operations as it was.
C8_ResetKeepsPeak ==
  [][api'.call = "fs_reset_stats" => fs_state'.peak_operations = fs_state.peak_operations]_vars

\* C9: with no reset, once every operation is terminal, total_reads and
\* total_bytes_read are the number of reads that delivered a success callback
\* and the sum of the lengths passed to them, total_writes and
\* total_bytes_written the number of successful writes/appends and the sum
\* of the byte counts their write steps reported; no other kind counts.
C9_TotalsMatch ==
  (~didReset /\ AllTerminal) =>
    /\ fs_state.total_reads = Cardinality({i \in Calls : ReadOk(i)})
    /\ fs_state.total_bytes_read =
         SumOver(NCalls, {i \in Calls : ReadOk(i)}, [i \in Calls |-> reqs[i].cbLen])
    /\ fs_state.total_writes = Cardinality({i \in Calls : WriteOk(i)})
    /\ fs_state.total_bytes_written =
         SumOver(NCalls, {i \in Calls : WriteOk(i)}, [i \in Calls |-> reqs[i].wres])

\* A read that delivered one byte and a write that reported one byte, both
\* terminal, no reset.
C9_Witness ==
  /\ ~didReset /\ AllTerminal
  /\ \E i, j \in Calls :
       /\ ReadOk(i) /\ reqs[i].cbLen = 1
       /\ WriteOk(j) /\ reqs[j].wres = 1
  /\ fs_state.total_bytes_read = 1
  /\ fs_state.total_bytes_written = 1

\* The operations whose record is released, with a failure, by this step.
FailedNow ==
  {i \in Calls : ~Released(i) /\ Released(i)' /\ reqs'[i].outcome = "fail"}

\* C10: failed_operations is incremented exactly once for every operation of
\* any kind that ends in a terminal failure, and by nothing else: no step but
\* a reset changes it otherwise, in particular no operation ending in success.
C10_FailedCounted ==
  [][api'.call # "fs_reset_stats" =>
       fs_state'.failed_operations =
         fs_state.failed_operations + Cardinality(FailedNow)]_vars

\* A read refused for its size and a first step libuv refused, next to no
\* reset: two failures counted.
C10_Witness ==
  /\ ~didReset
  /\ fs_state.failed_operations = 2
  /\ \E i, j \in Calls :
       /\ Released(i) /\ reqs[i].cbErr = "File too large"
       /\ Released(j) /\ reqs[j].reason = "submit"

\* The calls this step makes (one at most).
CalledNow == {i \in Calls : reqs[i].st = "unused" /\ reqs'[i].st # "unused"}

\* C11: a Write or Append whose size exceeds ECEWO_FS_MAX_FILE_SIZE is
\* rejected before any I/O: the entry point returns -1, no step is issued, the
\* payload is not copied, no callback runs and the registry is left as it
\* was (no slot taken); a payload of exactly the maximum size is not
\* rejected for its size.
C11_OversizeWriteRejected ==
  [][\A i \in CalledNow :
       LET r == reqs'[i] IN
       r.kind # "read" =>
         /\ r.asked > ECEWO_FS_MAX_FILE_SIZE =>
               /\ r.st = "rejected" /\ r.ret = -1
               /\ r.steps = <<>> /\ r.data = "null" /\ r.cbCount = 0
               /\ fs_state' = fs_state
         /\ r.asked <= ECEWO_FS_MAX_FILE_SIZE => r.reason # "toolarge"]_vars

\* One write refused for its size, and one of exactly the maximum size queued
\* with its open step.
C11_Witness ==
  \E i, j \in Calls :
    /\ reqs[i].reason = "toolarge" /\ reqs[i].asked = ECEWO_FS_MAX_FILE_SIZE + 1
    /\ reqs[j].kind \in WriteKinds /\ reqs[j].asked = ECEWO_FS_MAX_FILE_SIZE
    /\ reqs[j].ret = 0 /\ reqs[j].steps = << <<"open", "async">> >>

\* C12: for a Read, when the stat step reports a size above
\* ECEWO_FS_MAX_FILE_SIZE the callback is invoked once with the too-large
\* error, a null buffer and length 0, and stat is the only step ever issued;
\* a size up to the maximum is never refused for its size, and a read leaves
\* its stat step either with a failure or with the open step issued.
C12_OversizeReadRefused ==
  \A i \in Made :
    LET r == reqs[i] IN
    r.kind = "read" =>
      /\ r.asked > ECEWO_FS_MAX_FILE_SIZE =>
            /\ r.cbCount = 1 /\ r.cbErr = "File too large"
            /\ r.cbData = NULL /\ r.cbLen = 0
            /\ r.steps = << <<"stat", "async">> >>
      /\ r.asked <= ECEWO_FS_MAX_FILE_SIZE => r.cbErr # "File too large"
      /\ (r.st # "stat" /\ r.outcome # "fail") =>
            /\ Len(r.steps) >= 2
            /\ r.steps[2][1] = "open"

\* One read released with the too-large error, and one whose file has exactly
\* the maximum size waiting for its open step.
C12_Witness ==
  \E i, j \in Calls :
    /\ Released(i) /\ reqs[i].kind = "read"
    /\ reqs[i].asked = ECEWO_FS_MAX_FILE_SIZE + 1
    /\ reqs[j].kind = "read" /\ reqs[j].st = "open"
    /\ reqs[j].asked = ECEWO_FS_MAX_FILE_SIZE

\* C13: the buffer of a Read. With an arena the engine never frees it; with
\* arena NULL the engine frees it, once, on every failure that releases the
\* record after the buffer was allocated; every failure passes a null buffer
\* and length 0 to the callback; a success passes the buffer to the callback
\* and does not free it.
C13_ReadBufferOwnership ==
  [][\A i \in Made :
       LET r == reqs[i]
           q == reqs'[i]
       IN (r.kind = "read" /\ ~Released(i)) =>
            /\ r.arena => q.nfree = 0 /\ q.data # "freed"
            /\ (Released(i)' /\ q.outcome = "fail") =>
                  /\ q.cbData = NULL /\ q.cbLen = 0
                  /\ (r.data = "heap") => (q.data = "freed" /\ q.nfree = 1)
            /\ (Released(i)' /\ q.outcome = "ok") =>
                  /\ q.nfree = 0
                  /\ q.data = (IF r.arena THEN "arena" ELSE "heap")
                  /\ q.cbData = q.data]_vars

\* Two reads whose read step failed after the buffer was allocated: the
\* malloc'd buffer freed, the arena's left alone.
C13_Witness ==
  \E i, j \in Calls :
    /\ Released(i) /\ reqs[i].kind = "read" /\ reqs[i].outcome = "fail"
    /\ reqs[i].data = "freed" /\ reqs[i].nfree = 1
    /\ Released(j) /\ reqs[j].kind = "read" /\ reqs[j].outcome = "fail"
    /\ reqs[j].data = "arena" /\ reqs[j].nfree = 0

\* C14: a Write or Append returns with the payload copied into a buffer the
\* record owns, and the engine frees that buffer exactly once on every exit:
\* success, open failure, write failure and a first step libuv refuses.
C14_WritePayloadFreedOnce ==
  \A i \in Made :
    LET r == reqs[i] IN
    r.kind \in WriteKinds =>
      /\ r.st \in {"open", "write", "close"} => (r.data = "heap" /\ r.nfree = 0)
      /\ Released(i) => (r.data = "freed" /\ r.nfree = 1)
      /\ r.nfree <= 1

\* A write that succeeded next to one whose write step failed, both buffers
\* freed.
C14_Witness ==
  \E i, j \in Calls :
    /\ WriteOk(i) /\ reqs[i].nfree = 1
    /\ Released(j) /\ reqs[j].kind \in WriteKinds /\ reqs[j].outcome = "fail"
    /\ Len(reqs[j].steps) = 3 /\ reqs[j].nfree = 1

\* The close steps libuv accepted or ran for a record.
Closes(r) == {k \in 1..Len(r.steps) : r.steps[k][1] = "close" /\ r.steps[k][2] # "refused"}

\* C15: every file handle a successful open step returned is closed exactly
\* once before the record is released, after a successful or failed read or
\* write and after a failed buffer allocation; a record without a handle
\* closes nothing, no handle is closed twice, and a handle is open only
\* while its operation is in flight.
C15_HandleClosedOnce ==
  \A i \in Made :
    LET r == reqs[i] IN
    /\ Cardinality(Closes(r)) <= 1
    /\ r.file = "none" => Closes(r) = {}
    /\ r.file = "open" => r.st \in {"read", "write", "close", "stuck", "crashed"}
    /\ Released(i) =>
         /\ r.file \in {"none", "closed"}
         /\ r.file = "closed" => Cardinality(Closes(r)) = 1

\* All operations terminal: one handle closed after its read step failed, one
\* closed after a successful write.
C15_Witness ==
  /\ AllTerminal
  /\ \E i, j \in Calls :
       /\ reqs[i].kind = "read" /\ reqs[i].outcome = "fail"
       /\ reqs[i].file = "closed" /\ Len(reqs[i].steps) = 4
       /\ reqs[i].steps[4] = <<"close", "sync">>
       /\ WriteOk(j) /\ reqs[j].file = "closed"

\* C16: every step the engine hands to the reactor, on every path, is posted
\* asynchronously with a completion handler: none runs synchronously on the
\* loop thread.
C16_EveryStepAsync ==
  \A i \in Made :
    \A k \in 1..Len(reqs[i].steps) : reqs[i].steps[k][2] # "sync"

\* C17: fs_cleanup always terminates: whatever the operations in flight do,
\* the drain loop makes at most 100 polls, and the call then returns with the
\* module marked uninitialized and the lock destroyed.
C17_CleanupTerminates ==
  /\ [](cl.wait_count <= DrainPolls)
  /\ [][cl.pc = "drain" /\ cl'.pc = "idle" =>
          /\ api'.call = "fs_cleanup" /\ api'.polls <= DrainPolls
          /\ ~fs_state'.initialized /\ fs_state'.mutex = "destroyed"]_vars
  /\ (cl.pc = "drain") ~> (cl.pc = "idle")

\* fs_cleanup has returned after all its polls, an operation still in flight.
C17_Witness ==
  /\ api.call = "fs_cleanup" /\ api.polls = DrainPolls
  /\ fs_state.active_operations > 0
  /\ ~fs_state.initialized /\ fs_state.mutex = "destroyed"

\* C18: the warning of fs_cleanup is emitted iff active_operations > 0 when
\* the drain loop exits: the loop exits before its last poll only on
\* active_operations = 0, and then without the warning; with operations
\* still in flight it exits after the last poll, and the call warns and
\* returns.
C18_WarningIffActive ==
  [][cl.pc = "drain" /\ cl'.pc = "idle" =>
       /\ api'.warned <=> fs_state.active_operations > 0
       /\ fs_state.active_operations > 0 => api'.polls = DrainPolls
       /\ api'.polls < DrainPolls => ~api'.warned]_vars

\* fs_cleanup found operations in flight, polled, saw them all released and
\* returned without the warning.
C18_Witness ==
  /\ api.call = "fs_cleanup" /\ ~api.warned
  /\ api.polls > 0 /\ api.polls < DrainPolls
  /\ fs_state.active_operations = 0
  /\ \E i \in Calls : Released(i)

\* What a lifecycle call may not touch when it has nothing to do.
Untouched == UNCHANGED <<fs_state, reqs, ncalls, crashed, cl, gs>>

\* C19: fs_init called while the module is initialized returns 0 and changes
\* no state (lock, counters, records); fs_cleanup called while it is not
\* initialized changes no state either, and prints nothing.
C19_InitCleanupIdempotent ==
  [][/\ (api'.call = "fs_init" /\ fs_state.initialized) =>
          (api'.ret = 0 /\ Untouched)
     /\ (api'.call = "fs_cleanup" /\ ~fs_state.initialized) =>
          (~api'.warned /\ api'.polls = 0 /\ Untouched)]_vars

\* fs_init has just returned from a call made with an operation in flight
\* and the module initialized.
C19_Witness ==
  /\ api.call = "fs_init" /\ api.early /\ api.ret = 0
  /\ fs_state.initialized /\ fs_state.active_operations > 0

\* The entry point called by this step got past its argument, size and
\* allocation tests, so that the module state alone decided its admission.
Decided(r) == r.reason \notin {"badargs", "toolarge", "nomem"}

\* C20: in every module state the result of fs_can_accept_operation, tested
\* as a boolean, is true exactly when the entry-point call that follows it at
\* once on the same thread, with valid arguments, is admitted.
C20_ProbeTellsAdmission ==
  [][\A i \in CalledNow :
       (api.call = "fs_can_accept_operation" /\ Decided(reqs'[i])) =>
         ((api.ret # 0) <=> (reqs'[i].reason \notin {"uninit", "full"}))]_vars

\* C21: fs_get_stats copies the eight counters in one critical section: the
\* snapshot it returns is the registry as it is at the instant of the unlock,
\* whatever the other thread does meanwhile, never a mix of members from
\* before and after an update.
C21_SnapshotConsistent ==
  [][(gs.pc # 0 /\ gs'.pc = 0) => gs'.stats = Counters(fs_state)]_vars

\* A snapshot returned while an operation was in flight and another had
\* failed.
C21_Witness ==
  /\ api.call = "fs_get_stats" /\ ~api.early
  /\ gs.stats.active_operations = 1 /\ gs.stats.peak_operations = 2
  /\ gs.stats.failed_operations = 1

\* C22: for every operation that reaches a terminal state the terminal
\* events occur in this order: the user callback, then the release of the
\* request record, then the release of the admission slot.
C22_TerminalOrder ==
  \A i \in Made :
    Released(i) => reqs[i].events = <<"callback", "cleanup", "end">>

----------------------------------------------------------------------------
(* Sequential runs over one file: Write, Append and Read of the same path, *)
(* each issued when the callback of the previous one has reported success, *)
(* and nothing else touching the file.                                     *)

\* Every call made so far has ended in its success callback.
AllSucceeded == \A i \in Made : Released(i) /\ reqs[i].outcome = "ok"

NextStore ==
  \/ FsInit
  \/ AllSucceeded /\ fs_write_file(StoreCalls)
  \/ AllSucceeded /\ fs_append_file(StoreCalls)
  \/ AllSucceeded /\ fs_read_file(StoreCalls)
  \/ \E i \in Calls : read_stat_cb(i)
  \/ \E i \in Calls : read_open_cb(i)
  \/ \E i \in Calls : read_data_cb(i)
  \/ \E i \in Calls : read_close_cb(i)
  \/ \E i \in Calls : write_open_cb(i)
  \/ \E i \in Calls : write_data_cb(i)
  \/ \E i \in Calls : write_close_cb(i)

SpecStore == Init /\ [][NextStore]_vars

\* The payload of call i: asked bytes, each unlike any byte of another call.
Payload(i) == [k \in 1..reqs[i].asked |-> <<i, k>>]

\* The file after calls 1..n, from what their steps did: a successful open
\* with UV_FS_O_TRUNC empties it, the write step put down the bytes it
\* reported (wres), at offset 0 of the emptied file or, the handle opened
\* with UV_FS_O_APPEND, at the end whatever the offset.
RECURSIVE FileAfter(_)
FileAfter(n) ==
  IF n = 0 THEN <<>>
  ELSE LET r == reqs[n]
           written == SubSeq(Payload(n), 1, r.wres)
       IN IF r.kind = "write" /\ r.file # "none" THEN written
          ELSE IF r.kind = "append" /\ r.file # "none" THEN FileAfter(n - 1) \o written
          ELSE FileAfter(n - 1)

\* Read i reported success over that file: its stat step saw the file's size.
ReadOkOver(i) == ReadOk(i) /\ reqs[i].asked = Len(FileAfter(i - 1))

\* What read i delivered: the first cbLen bytes of the file.
Delivered(i) == SubSeq(FileAfter(i - 1), 1, reqs[i].cbLen)

\* C23: run sequentially over one file, Write(P, a), Append(P, b), Read(P)
\* yields a.b, and Write(P, a), Write(P, b), Read(P) yields b.
C23_AppendAndTruncate ==
  (/\ WriteOk(1) /\ reqs[1].kind = "write"
   /\ WriteOk(2)
   /\ ReadOkOver(3))
  => Delivered(3) = (IF reqs[2].kind = "append" THEN Payload(1) \o Payload(2)
                     ELSE Payload(2))

\* C24: for every payload D up to the maximum size, the empty one included,
\* a Write(P, D) that reports success followed by a Read(P) that reports
\* success delivers len(D) bytes equal to D.
C24_RoundTrip ==
  \A i \in 1..(NCalls - 1) :
    (/\ WriteOk(i) /\ reqs[i].kind = "write"
     /\ ReadOkOver(i + 1))
    => (reqs[i + 1].cbLen = reqs[i].asked /\ Delivered(i + 1) = Payload(i))

\* C25: in a Read the destination buffer is allocated after the stat step
\* succeeds and before the open step is issued: a read waiting for its open
\* step has its buffer, and a buffer allocation failure ends the operation
\* with no file handle ever opened.
C25_BufferBeforeOpen ==
  \A i \in Made :
    reqs[i].kind = "read" =>
      /\ reqs[i].st = "open" => reqs[i].data # "null"
      /\ reqs[i].cbErr = "Memory allocation failed" => reqs[i].file = "none"

\* The steps of each kind of operation, in chain order.
ChainOf(kind) ==
  IF kind = "read" THEN <<"stat", "open", "read", "close">>
  ELSE IF kind \in WriteKinds THEN <<"open", "write", "close">>
  ELSE IF kind = "none" THEN <<>>
  ELSE <<kind>>

\* The names of the steps issued for a record, in the order of issue.
StepNames(r) == [k \in 1..Len(r.steps) |-> r.steps[k][1]]

IsPrefix(n, c) == Len(n) <= Len(c) /\ \A k \in 1..Len(n) : n[k] = c[k]

\* n runs through c in order, perhaps leaving steps out, none twice.
InOrder(n, c) ==
  /\ \A k \in 1..Len(n) : \E j \in 1..Len(c) : c[j] = n[k]
  /\ \A k \in 2..Len(n) :
       \E j1, j2 \in 1..Len(c) : j1 < j2 /\ c[j1] = n[k - 1] /\ c[j2] = n[k]

\* The step a record waits for, if any, is the one issued last, and libuv
\* accepted it: every step before it has completed.
OneOutstanding(r) ==
  r.st \in {"stat", "open", "read", "write", "close", "unlink", "mkdir", "rmdir", "rename"}
    => (r.steps # <<>> /\ r.steps[Len(r.steps)] = <<r.st, "async">>)

\* This step issues a reactor step for record i.
IssuedNow(i) == Len(reqs'[i].steps) > Len(reqs[i].steps)

\* Record i was waiting for the step issued last: this step handles its
\* completion.
FromCompletion(i) ==
  /\ reqs[i].steps # <<>>
  /\ reqs[i].steps[Len(reqs[i].steps)] = <<reqs[i].st, "async">>

C27_TerminatorInside ==
  /\ [](\A i \in Made :
          (reqs[i].kind = "read" /\ reqs[i].nul # -1) =>
            /\ reqs[i].nul = reqs[i].size
            /\ 0 <= reqs[i].size /\ reqs[i].size <= reqs[i].file_size
            /\ reqs[i].file_size < reqs[i].cap
            /\ reqs[i].cap = reqs[i].file_size + 1)
  /\ [][\A i \in Made :
          (reqs[i].kind = "read" /\ reqs[i].st = "close" /\ Released(i)')
            => reqs'[i].cbLen = reqs[i].size]_vars

\* A file of the maximum size read short next to an empty file read whole,
\* both with their zero written.
C27_Witness ==
  \E i, j \in Made :
    /\ reqs[i].kind = "read" /\ reqs[i].st = "close"
    /\ reqs[i].file_size = ECEWO_FS_MAX_FILE_SIZE
    /\ reqs[i].size < reqs[i].file_size /\ reqs[i].nul = reqs[i].size
    /\ reqs[j].kind = "read" /\ reqs[j].st = "close"
    /\ reqs[j].file_size = 0 /\ reqs[j].nul = 0

C29_CallbackIffQueued ==
  \A i \in Made :
    /\ reqs[i].ret = -1 => reqs[i].cbCount = 0
    /\ reqs[i].cbCount > 0 => reqs[i].ret = 0
    /\ (Released(i) /\ reqs[i].ret = 0) => reqs[i].cbCount > 0

\* This step is the completion of a step of record i.
Completes(i) ==
  /\ reqs[i].st \in {"stat", "open", "read", "write", "close",
                      "unlink", "mkdir", "rmdir", "rename"}
  /\ reqs'[i] # reqs[i]

\* C30: once fs_cleanup has returned with operations in flight (the module
\* uninitialized, the lock destroyed), no completion of those operations
\* takes the destroyed lock or changes the registry counters.
C30_NoLockAfterCleanup ==
  [][\A i \in Made :
       (fs_state.mutex = "destroyed" /\ Completes(i)) =>
         /\ fs_state' = fs_state
         /\ crashed' = crashed]_vars

\* C31: peak_operations >= active_operations in every reachable state, after
\* any sequence of admissions, completions and fs_reset_stats calls.
C31_PeakAtLeastActive ==
  fs_state.peak_operations >= fs_state.active_operations

----------------------------------------------------------------------------
(* The terminal paths of the Read and Stat handlers in two steps: up to    *)
(* the call of the user callback, and from its return on. In between the   *)
(* callback runs on the loop thread and may call the entry points; no      *)
(* other handler runs.                                                     *)

\* The user callback of this record is running.
InCallback(r) == r.st \in {"callback", "callback_free"}

NoCallback == \A i \in Calls : ~InCallback(reqs[i])

\* fs_end_operation run before the callback is called.
EnterCallback_slot_released(i, r, free_data) ==
  /\ reqs' = [reqs EXCEPT ![i] =
                [r EXCEPT !.st = IF free_data THEN "callback_free" ELSE "callback"]]
  /\ fs_state' = fs_end_operation(fs_state)
  /\ UNCHANGED crashed

\* The handler has called the user callback; free_data is the argument its
\* fs_request_cleanup call will have.
EnterCallback(i, r, free_data) ==
  /\ reqs' = [reqs EXCEPT ![i] =
                [r EXCEPT !.st = IF free_data THEN "callback_free" ELSE "callback"]]
  /\ UNCHANGED <<fs_state, crashed>>

FailEnter(i, r, err, free_data) ==
  EnterCallback(i, Callback([r EXCEPT !.outcome = "fail"], err, NULL, 0), free_data)

\* The callback has returned: fs_record_*, fs_end_operation,
\* fs_request_cleanup.
callback_returns(i) ==
  /\ ~crashed
  /\ InCallback(reqs[i])
  /\ LET r == reqs[i]
         s1 == IF r.outcome = "fail" THEN fs_record_error(fs_state)
               ELSE IF r.kind = "read" THEN fs_record_read(fs_state, r.size)
               ELSE fs_state
     IN Locked(i, r, fs_request_cleanup(Ended(r), r.st = "callback_free"),
               fs_end_operation(s1))
  /\ api' = NoCall
  /\ UNCHANGED <<ncalls, didReset, tpc, cl, gs>>

read_close_cb_calls(i) ==
  /\ NoCallback
  /\ Pending(i, {"read"}, "close")
  /\ LET r == reqs[i] IN
     EnterCallback(i, Callback([r EXCEPT !.file = "closed", !.outcome = "ok"],
                               NULL, r.data, r.size), FALSE)
  /\ api' = NoCall
  /\ UNCHANGED <<ncalls, didReset, tpc, cl, gs>>

read_data_cb_calls(i) ==
  /\ NoCallback
  /\ Pending(i, {"read"}, "read")
  /\ \E res \in -1..buf_len(reqs[i].file_size) :
       LET r == reqs[i] IN
       IF res < 0
       THEN \E msgOk \in BOOLEAN :
            LET r1 == CloseSync([r EXCEPT !.error_msg = make_error_msg(msgOk)])
            IN FailEnter(i, r1, ErrArg(r1.error_msg, "Read failed"), TRUE)
       ELSE \E submitOk \in BOOLEAN :
            Chain(i, [r EXCEPT !.size = res, !.nul = res], "close", submitOk)
  /\ api' = NoCall
  /\ UNCHANGED <<ncalls, didReset, tpc, cl, gs>>

read_open_cb_calls(i) ==
  /\ NoCallback
  /\ Pending(i, {"read"}, "open")
  /\ \E openOk \in BOOLEAN :
       LET r == reqs[i] IN
       IF ~openOk
       THEN \E msgOk \in BOOLEAN :
            LET r1 == [r EXCEPT !.error_msg = make_error_msg(msgOk)]
            IN FailEnter(i, r1, ErrArg(r1.error_msg, "Open failed"), FALSE)
       ELSE \E allocOk \in BOOLEAN :
            LET r1 == [r EXCEPT !.file = "open",
                                !.data = IF ~allocOk THEN "null"
                                         ELSE IF r.arena THEN "arena" ELSE "heap",
                                !.cap = IF ~allocOk THEN 0
                                        ELSE alloc_size(r.file_size)]
            IN IF r1.data = "null"
               THEN FailEnter(i, CloseSync(r1), "Memory allocation failed", FALSE)
               ELSE \E submitOk \in BOOLEAN : Chain(i, r1, "read", submitOk)
  /\ api' = NoCall
  /\ UNCHANGED <<ncalls, didReset, tpc, cl, gs>>

read_stat_cb_calls(i) ==
  /\ NoCallback
  /\ Pending(i, {"read"}, "stat")
  /\ \E res \in -1..(ECEWO_FS_MAX_FILE_SIZE + 1) :
       LET r == reqs[i] IN
       IF res < 0
       THEN \E msgOk \in BOOLEAN :
            LET r1 == [r EXCEPT !.error_msg = make_error_msg(msgOk)]
            IN FailEnter(i, r1, ErrArg(r1.error_msg, "Stat failed"), FALSE)
       ELSE LET r1 == [r EXCEPT !.file_size = res, !.asked = res] IN
            IF too_large(r1.file_size)
            THEN FailEnter(i, r1, "File too large", FALSE)
            ELSE \E submitOk \in BOOLEAN : Chain(i, r1, "open", submitOk)
  /\ api' = NoCall
  /\ UNCHANGED <<ncalls, didReset, tpc, cl, gs>>

stat_cb_calls(i) ==
  /\ NoCallback
  /\ Pending(i, {"stat"}, "stat")
  /\ \E statOk \in BOOLEAN :
       LET r == reqs[i] IN
       IF ~statOk
       THEN \E msgOk \in BOOLEAN :
            LET r1 == [r EXCEPT !.error_msg = make_error_msg(msgOk)]
            IN FailEnter(i, r1, ErrArg(r1.error_msg, "Stat failed"), FALSE)
       ELSE EnterCallback(i, Callback([r EXCEPT !.outcome = "ok"], NULL, "stat", 0),
                          FALSE)
  /\ api' = NoCall
  /\ UNCHANGED <<ncalls, didReset, tpc, cl, gs>>

\* The entry points are called from the loop thread between handlers or by
\* a running callback.
NextNested ==
  \/ NoCallback /\ FsInit
  \/ fs_read_file(AdmitCalls)
  \/ fs_stat(AdmitCalls)
  \/ \E i \in Calls :
       \/ read_stat_cb_calls(i)
       \/ read_open_cb_calls(i)
       \/ read_data_cb_calls(i)
       \/ read_close_cb_calls(i)
       \/ stat_cb_calls(i)
       \/ callback_returns(i)

SpecNested == Init /\ [][NextNested]_vars

\* The records that hold an admission slot.
Holding ==
  {i \in Made : reqs[i].st \in {"stat", "open", "read", "close", "stuck",
                                  "callback", "callback_free"}}

\* This step is an entry-point call made by a running callback.
NestedCall == (\E i \in Made : InCallback(reqs[i])) /\ ncalls' = ncalls + 1

\* C32: while a terminal callback runs, active_operations still counts the
\* finishing operation (its slot is given back after the callback returns),
\* so an entry-point call made from inside the callback while
\* active_operations equals the ceiling is rejected with -1.
C32_SlotHeldDuringCallback ==
  /\ [](fs_state.active_operations = Cardinality(Holding))
  /\ [][(NestedCall /\ fs_state.active_operations = ECEWO_FS_MAX_CONCURRENT_OPS)
          => /\ reqs'[ncalls'].ret = -1
             /\ reqs'[ncalls'].st = "rejected"
             /\ reqs'[ncalls'].cbCount = 0
             /\ fs_state'.active_operations = fs_state.active_operations]_vars

\* A call was rejected as full while a read's success callback was running
\* and held the last slot but one.
C32_Witness ==
  \E i, j \in Made :
    /\ InCallback(reqs[i]) /\ reqs[i].kind = "read" /\ reqs[i].outcome = "ok"
    /\ i < j /\ j = ncalls
    /\ reqs[j].st = "rejected" /\ reqs[j].reason = "full"
    /\ fs_state.active_operations = ECEWO_FS_MAX_CONCURRENT_OPS

\* The records that were admitted (fs_begin_operation ran for them) and are
\* not yet released.
InFlight ==
  {i \in Made : reqs[i].st \in {"stat", "open", "read", "write", "close", "unlink",
                                  "mkdir", "rmdir", "rename", "stuck"}}

\* C33: between handlers, fs_cleanup not having run, active_operations is the
\* number of request records admitted and not yet released; so it is back at
\* its prior value after every operation, on success and on every failure
\* path.
C33_ActiveCountsRecords ==
  fs_state.active_operations = Cardinality(InFlight)

\* One operation released after a failure and one after a success, nothing
\* in flight and the count back at zero after having been at two.
C33_Witness ==
  /\ \E i, j \in Made :
       /\ Released(i) /\ reqs[i].outcome = "fail"
       /\ Released(j) /\ reqs[j].outcome = "ok"
  /\ InFlight = {}
  /\ fs_state.active_operations = 0
  /\ fs_state.peak_operations = 2

\* C34: a Write or Append delivers its success callback only when the write
\* step reported all buffer_len bytes of the payload written; a write step
\* that reports fewer bytes does not end in a success callback.
C34_SuccessMeansAllWritten ==
  \A i \in Made :
    (reqs[i].kind \in WriteKinds /\ reqs[i].cbCount > 0 /\ reqs[i].cbErr = NULL)
      => reqs[i].wres = reqs[i].asked

=============================================================================
